---- MODULE Spec2Model ----
(***************************************************************************)
(* scripts/agent_select.py: the stock-code extractor _extract_stock_codes  *)
(* (three regular expressions feeding an insertion-ordered set) and the    *)
(* command-line driver main() that builds the agent executor, runs it,     *)
(* saves the report, extracts and truncates the codes and emits them.      *)
(*                                                                         *)
(* A text is a sequence of characters.  A character is a one-letter string *)
(* for ASCII; "CJK" stands for one Han ideograph (a \w character that is   *)
(* no ASCII letter), "YEN" for U+00A5 and "FWYEN" for U+FFE5.              *)
(* Offsets into a text are 0-based as in Python: offset i is text[i + 1].  *)
(***************************************************************************)
EXTENDS Integers, Sequences, FiniteSets, TLC

VARIABLES
    text,       \* _extract_stock_codes: parameter text
    market,     \* _extract_stock_codes: parameter market
    extracted,  \* _extract_stock_codes: the returned list
    xpc,        \* position of the direct call of _extract_stock_codes
    pc,         \* main(): position in the function body
    args,       \* main(): the argparse namespace (market, max_stocks, output, report)
    buildOk,    \* main(): "unknown" before build_agent_executor, then "ok" / "raised"
    result,     \* main(): the value returned by executor.run
    codes,      \* main(): local variable codes
    stdout,     \* the process' standard output, one entry per print() call
    status,     \* the process' exit status (-1 while running)
    outputFile, \* the file at args.output
    reportFile, \* the file at args.report
    log,        \* the calls main() has made so far in this process, in order
    runs        \* number of processes started so far

vars == <<text, market, extracted, xpc, pc, args, buildOk, result, codes,
          stdout, status, outputFile, reportFile, log, runs>>

(***************************************************************************)
(* Bounds of the model.                                                    *)
(***************************************************************************)
MaxChunks == 3      \* a text given to the extractor is at most this many chunks
MaxStocksArg == 3   \* largest --max-stocks value tried
MaxRuns == 2        \* number of consecutive processes sharing the files

(***************************************************************************)
(* Character classes of Python's re module on str patterns.                *)
(***************************************************************************)
UpperSeq == <<"A","B","C","D","E","F","G","H","I","J","K","L","M",
              "N","O","P","Q","R","S","T","U","V","W","X","Y","Z">>
LowerSeq == <<"a","b","c","d","e","f","g","h","i","j","k","l","m",
              "n","o","p","q","r","s","t","u","v","w","x","y","z">>

Range(s) == {s[i] : i \in 1..Len(s)}

\* [A-Z] without re.IGNORECASE
UpperChars == Range(UpperSeq)
LowerChars == Range(LowerSeq)
\* \d
DigitChars == {"0","1","2","3","4","5","6","7","8","9"}
\* \w : letters, digits, underscore and (Unicode) ideographs
WordChars == UpperChars \cup LowerChars \cup DigitChars \cup {"_", "CJK"}
\* the character class [$%￥¥\d] of the ticker context test
ContextChars == {"$", "%", "FWYEN", "YEN"} \cup DigitChars

\* str.upper() on one character
UpperChar(c) ==
    IF c \in LowerChars
    THEN UpperSeq[CHOOSE i \in 1..Len(LowerSeq) : LowerSeq[i] = c]
    ELSE c

\* str.upper()
Upper(s) == [i \in 1..Len(s) |-> UpperChar(s[i])]

\* text[a:b] for 0 <= a <= b <= len(text)
Slice(s, a, b) == SubSeq(s, a + 1, b)

\* is offset i inside the text and a \w character
IsWordAt(s, i) == i >= 0 /\ i < Len(s) /\ s[i + 1] \in WordChars

\* \b at offset i
Boundary(s, i) == IsWordAt(s, i - 1) # IsWordAt(s, i)

\* \d{n} at offset i
DigitsAt(s, i, n) == i + n <= Len(s) /\ \A k \in 1..n : s[i + k] \in DigitChars

\* the literal lit at offset i under re.IGNORECASE
LitAtCI(s, i, lit) ==
    i + Len(lit) <= Len(s) /\ \A k \in 1..Len(lit) : UpperChar(s[i + k]) = lit[k]

\* (?:SH|SZ) at offset i under re.IGNORECASE
ExchangeAt(s, i) == LitAtCI(s, i, <<"S","H">>) \/ LitAtCI(s, i, <<"S","Z">>)

NoMatch == [start |-> -1, end |-> -1, token |-> <<>>]

(***************************************************************************)
(* Program constants.                                                      *)
(***************************************************************************)
AStockTail == 5     \* _ASTOCK_FULL: \d{5} after the leading digit
HKDigits == 5       \* _HKSTOCK_FULL: \d{5}
TickerMin == 1      \* _USSTOCK_FULL: [A-Z]{1,5}
TickerMax == 5      \* _USSTOCK_FULL: [A-Z]{1,5}
ContextRadius == 20 \* m.start() - 20, m.end() + 20

_VALID_FIRST == {"0", "3", "6"}

Markets == {"cn", "hk", "us", "mixed"}

(***************************************************************************)
(* The three compiled patterns, as "does the pattern match at offset i,    *)
(* and where does the match end".  A match is [start, end, token] with     *)
(* token the text the caller reads from it: group "code" for _ASTOCK_FULL, *)
(* group 0 for the other two.                                              *)
(***************************************************************************)

\* (?P<code>[036]\d{5}|[12]\d{5}) at offset c
AStockCodeAt(s, c) ==
    /\ c < Len(s)
    /\ \/ s[c + 1] \in {"0", "3", "6"} /\ DigitsAt(s, c + 1, AStockTail)
       \/ s[c + 1] \in {"1", "2"} /\ DigitsAt(s, c + 1, AStockTail)

\* (?:\.(?:SH|SZ)) at offset e
AStockSuffixAt(s, e) == e < Len(s) /\ s[e + 1] = "." /\ ExchangeAt(s, e + 1)

\* \b(?:SH|SZ)?(?P<code>...)(?:\.(?:SH|SZ))?\b with re.IGNORECASE, tried at
\* offset i.  Both optional groups are greedy: the engine tries them present
\* before absent, the prefix being the outer choice.
_ASTOCK_FULL(s, i) ==
    LET alts == << <<2, 3>>, <<2, 0>>, <<0, 3>>, <<0, 0>> >>
        Fits(a) ==
            /\ a[1] = 2 => ExchangeAt(s, i)
            /\ AStockCodeAt(s, i + a[1])
            /\ a[2] = 3 => AStockSuffixAt(s, i + a[1] + 1 + AStockTail)
            /\ Boundary(s, i + a[1] + 1 + AStockTail + a[2])
        hits == IF Boundary(s, i) THEN {k \in 1..Len(alts) : Fits(alts[k])} ELSE {}
    IN  IF hits = {} THEN NoMatch
        ELSE LET a == alts[CHOOSE k \in hits : \A j \in hits : k <= j]
             IN  [start |-> i,
                  end   |-> i + a[1] + 1 + AStockTail + a[2],
                  token |-> Slice(s, i + a[1], i + a[1] + 1 + AStockTail)]

\* \bHK\d{5}\b with re.IGNORECASE, tried at offset i
_HKSTOCK_FULL(s, i) ==
    IF /\ Boundary(s, i)
       /\ LitAtCI(s, i, <<"H", "K">>)
       /\ DigitsAt(s, i + 2, HKDigits)
       /\ Boundary(s, i + 2 + HKDigits)
    THEN [start |-> i, end |-> i + 2 + HKDigits,
          token |-> Slice(s, i, i + 2 + HKDigits)]
    ELSE NoMatch

\* \b[A-Z]{1,5}\b tried at offset i: the greedy repeat takes the longest
\* run it can and gives letters back until \b holds
_USSTOCK_FULL(s, i) ==
    LET lens == {n \in TickerMin..TickerMax :
                    /\ i + n <= Len(s)
                    /\ \A k \in 1..n : s[i + k] \in UpperChars
                    /\ Boundary(s, i + n)}
    IN  IF Boundary(s, i) /\ lens # {}
        THEN LET n == CHOOSE m \in lens : \A j \in lens : j <= m
             IN  [start |-> i, end |-> i + n, token |-> Slice(s, i, i + n)]
        ELSE NoMatch

\* the pattern named kind tried at offset i
MatchAt(kind, s, i) ==
    CASE kind = "astock" -> _ASTOCK_FULL(s, i)
      [] kind = "hk"     -> _HKSTOCK_FULL(s, i)
      [] kind = "us"     -> _USSTOCK_FULL(s, i)

\* pattern.finditer(text): the non-overlapping matches, leftmost first, the
\* scan resuming where the previous match ended
RECURSIVE FindIter(_, _, _)
FindIter(kind, s, pos) ==
    IF pos >= Len(s) THEN <<>>
    ELSE LET m == MatchAt(kind, s, pos)
         IN  IF m.start >= 0
             THEN <<m>> \o FindIter(kind, s, m.end)
             ELSE FindIter(kind, s, pos + 1)

(***************************************************************************)
(* The ordered set  seen: dict[str, None].                                 *)
(***************************************************************************)

\* seen.pop(key, None); seen[key] = None : a repeated key moves to the end
SetDefaultMoveToEnd(seen, key) ==
    Append(SelectSeq(seen, LAMBDA k : k # key), key)

\* seen.setdefault(key)
SetDefault(seen, key) == IF key \in Range(seen) THEN seen ELSE Append(seen, key)

\* the loop at lines 66-69: every _ASTOCK_FULL match whose code group
\* starts with an allowed digit goes into seen
RECURSIVE AStockLoop(_, _)
AStockLoop(seen, ms) ==
    IF ms = <<>> THEN seen
    ELSE LET code == Head(ms).token
         IN  IF code[1] \in _VALID_FIRST \/ code[1] \in {"1", "2"}
             THEN AStockLoop(SetDefault(seen, code), Tail(ms))
             ELSE AStockLoop(seen, Tail(ms))

\* \b(?:SH|SZ)?(?P<code>\d{6})(?:\.(?:SH|SZ))?\b tried at offset i
AnyFirstMatchAt(s, i) ==
    LET alts == << <<2, 3>>, <<2, 0>>, <<0, 3>>, <<0, 0>> >>
        Fits(a) ==
            /\ a[1] = 2 => ExchangeAt(s, i)
            /\ DigitsAt(s, i + a[1], 1 + AStockTail)
            /\ a[2] = 3 => AStockSuffixAt(s, i + a[1] + 1 + AStockTail)
            /\ Boundary(s, i + a[1] + 1 + AStockTail + a[2])
        hits == IF Boundary(s, i) THEN {k \in 1..Len(alts) : Fits(alts[k])} ELSE {}
    IN  IF hits = {} THEN NoMatch
        ELSE LET a == alts[CHOOSE k \in hits : \A j \in hits : k <= j]
             IN  [start |-> i,
                  end   |-> i + a[1] + 1 + AStockTail + a[2],
                  token |-> Slice(s, i + a[1], i + a[1] + 1 + AStockTail)]

\* the pattern written as \d{6} and the leading-digit test left out
RECURSIVE AnyFirstScan(_, _, _)
AnyFirstScan(seen, s, pos) ==
    IF pos >= Len(s) THEN seen
    ELSE LET m == AnyFirstMatchAt(s, pos)
         IN  IF m.start >= 0
             THEN AnyFirstScan(SetDefault(seen, m.token), s, m.end)
             ELSE AnyFirstScan(seen, s, pos + 1)

AStockCodesAnyFirst(s) == AnyFirstScan(<<>>, s, 0)

\* lines 64-69: seen after the A-share loop
AStockCodes(s) == AStockLoop(<<>>, FindIter("astock", s, 0))

\* the loop at lines 72-73: every _HKSTOCK_FULL match, uppercased
RECURSIVE HKLoop(_, _)
HKLoop(seen, ms) ==
    IF ms = <<>> THEN seen
    ELSE HKLoop(SetDefault(seen, Upper(Head(ms).token)), Tail(ms))

\* the window taken one character too wide on both sides
HasPriceContextWide(s, m) ==
    \E k \in 1..Len(s) :
        /\ k - 1 >= m.start - ContextRadius - 1
        /\ k - 1 < m.end + ContextRadius + 1
        /\ s[k] \in ContextChars

\* lines 80-83: does the window around match m hold a currency sign, a
\* percent sign or a digit
HasPriceContext(s, m) ==
    LET Max(a, b) == IF a >= b THEN a ELSE b
        Min(a, b) == IF a <= b THEN a ELSE b
        span_start == Max(0, m.start - ContextRadius)
        span_end   == Min(Len(s), m.end + ContextRadius)
        context    == Slice(s, span_start, span_end)
    IN  \E k \in 1..Len(context) : context[k] \in ContextChars

\* the loop at lines 77-84
RECURSIVE USLoop(_, _, _)
USLoop(seen, s, ms) ==
    IF ms = <<>> THEN seen
    ELSE IF HasPriceContext(s, Head(ms))
         THEN USLoop(SetDefault(seen, Head(ms).token), s, Tail(ms))
         ELSE USLoop(seen, s, Tail(ms))

\* the HK loop run whatever the market scope
_extract_stock_codes_hk_ungated(s, mkt) ==
    LET seen2 == HKLoop(AStockCodes(s), FindIter("hk", s, 0))
    IN  IF mkt \in {"us", "mixed"}
        THEN USLoop(seen2, s, FindIter("us", s, 0))
        ELSE seen2

\* def _extract_stock_codes(text, market)
_extract_stock_codes(s, mkt) ==
    LET seen1 == AStockCodes(s)
        seen2 == IF mkt \in {"hk", "mixed"}
                 THEN HKLoop(seen1, FindIter("hk", s, 0))
                 ELSE seen1
        seen3 == IF mkt \in {"us", "mixed"}
                 THEN USLoop(seen2, s, FindIter("us", s, 0))
                 ELSE seen2
    IN  seen3

(***************************************************************************)
(* Texts given to the extractor: concatenations of at most MaxChunks of    *)
(* the chunks below.                                                       *)
(***************************************************************************)
Pad(n) == [i \in 1..n |-> " "]

Chunks == <<
    <<"6","0","0","5","1","9">>,
    <<",","0","0","0","0","0","1",",">>,
    <<"4","0","0","0","0","1">>,
    <<"S","H">>,
    <<".","s","z">>,
    <<"h","k","0","0","7","0","0">>,
    <<"H","K","0","0","7","0","0">>,
    <<"A","A","P","L">>,
    <<"x">>,
    Pad(ContextRadius - 1),
    Pad(ContextRadius),
    <<"%">> >>

RECURSIVE Concat(_)
Concat(cs) == IF cs = <<>> THEN <<>> ELSE Chunks[Head(cs)] \o Concat(Tail(cs))

Texts == {Concat(cs) : cs \in UNION {[1..n -> 1..Len(Chunks)] : n \in 0..MaxChunks}}

(***************************************************************************)
(* A direct call of _extract_stock_codes on an arbitrary text and scope.   *)
(***************************************************************************)
MainIdle ==
    /\ pc = "idle"
    /\ args = [market |-> "cn", max_stocks |-> 10, output |-> "None", report |-> "None"]
    /\ buildOk = "unknown"
    /\ result = [success |-> FALSE, content |-> <<>>]
    /\ codes = <<>>
    /\ stdout = <<>>
    /\ status = -1
    /\ outputFile = [exists |-> FALSE, content |-> <<>>]
    /\ reportFile = [exists |-> FALSE, content |-> <<>>]
    /\ log = <<>>
    /\ runs = 0

InitExtract ==
    /\ text \in Texts
    /\ market \in Markets
    /\ extracted = <<>>
    /\ xpc = "call"
    /\ MainIdle

ExtractCall ==
    /\ xpc = "call"
    /\ extracted' = _extract_stock_codes(text, market)
    /\ xpc' = "returned"
    /\ UNCHANGED <<text, market, pc, args, buildOk, result, codes, stdout,
                   status, outputFile, reportFile, log, runs>>

NextExtract == ExtractCall

SpecExtract == InitExtract /\ [][NextExtract]_vars

(***************************************************************************)
(* main().  One process runs main() once; MaxRuns processes run one after  *)
(* the other on the same two files.                                        *)
(***************************************************************************)

\* result.content values the executor may return
MainReports == {
    <<"A","A","P","L"," ","i","s"," ","g","r","e","a","t">>,
    <<"1","1","1","1","1","1",",","2","2","2","2","2","2",",","6","6","6","6","6","6">>,
    <<"h","k","0","0","7","0","0"," ","A","A","P","L"," ","3","%"," ","6","0","0","5","1","9">> }

\* parse_args(): --market has four choices, --max-stocks is any int,
\* --output and --report default to None
ArgSpace ==
    [market : Markets, max_stocks : (-1)..MaxStocksArg,
     output : {"None", "out.txt"}, report : {"None", "report.md"}]

NoFile == [exists |-> FALSE, content |-> <<>>]

\* codes[:n + 1]: the limit taken as an inclusive index
PySliceToInclusive(s, n) ==
    LET stop == IF n + 1 <= Len(s) THEN n + 1 ELSE Len(s)
    IN  SubSeq(s, 1, IF stop >= 0 THEN stop ELSE 0)

\* codes[:n]
PySliceTo(s, n) ==
    LET stop == IF n >= 0 THEN (IF n <= Len(s) THEN n ELSE Len(s))
                ELSE (IF Len(s) + n >= 0 THEN Len(s) + n ELSE 0)
    IN  SubSeq(s, 1, stop)

\* ",".join(codes)
RECURSIVE Join(_)
Join(cs) ==
    IF cs = <<>> THEN <<>>
    ELSE IF Len(cs) = 1 THEN cs[1]
    ELSE cs[1] \o <<",">> \o Join(Tail(cs))

\* Path(p).write_text(data)
WriteText(data) == [exists |-> TRUE, content |-> data]

ExtractIdle ==
    /\ text = <<>>
    /\ market = "cn"
    /\ extracted = <<>>
    /\ xpc = "idle"

\* a fresh process: lines 122-126
ProcessStart ==
    /\ pc = "build"
    /\ args \in ArgSpace
    /\ buildOk = "unknown"
    /\ result = [success |-> FALSE, content |-> <<>>]
    /\ codes = <<>>
    /\ stdout = <<>>
    /\ status = -1
    /\ log = <<>>

Init ==
    /\ ExtractIdle
    /\ ProcessStart
    /\ outputFile = NoFile
    /\ reportFile = NoFile
    /\ runs = 1

\* lines 128-130, build_agent_executor returns
BuildOk ==
    /\ pc = "build"
    /\ buildOk' = "ok"
    /\ log' = Append(log, "build")
    /\ pc' = "run"
    /\ UNCHANGED <<text, market, extracted, xpc, args, result, codes, stdout,
                   status, outputFile, reportFile, runs>>

\* the except branch logs and falls through instead of returning
BuildRaisesSwallowed ==
    /\ pc = "build"
    /\ buildOk' = "raised"
    /\ log' = Append(log, "build")
    /\ pc' = "run"
    /\ UNCHANGED <<text, market, extracted, xpc, args, result, codes, stdout,
                   status, outputFile, reportFile, runs>>

\* lines 128-133, build_agent_executor raises
BuildRaises ==
    /\ pc = "build"
    /\ buildOk' = "raised"
    /\ log' = Append(log, "build")
    /\ status' = 1
    /\ pc' = "exit"
    /\ UNCHANGED <<text, market, extracted, xpc, args, result, codes, stdout,
                   outputFile, reportFile, runs>>

\* lines 135-139, executor.run returns a result
RunExecutor ==
    /\ pc = "run"
    /\ \E ok \in BOOLEAN, content \in MainReports :
          result' = [success |-> ok, content |-> content]
    /\ log' = Append(log, "run")
    /\ pc' = "result"
    /\ UNCHANGED <<text, market, extracted, xpc, args, buildOk, codes, stdout,
                   status, outputFile, reportFile, runs>>

\* the report is saved before result.success is looked at
ResultFailedAfterSave ==
    /\ pc = "result"
    /\ ~result.success
    /\ IF args.report # "None"
       THEN /\ reportFile' = [exists |-> TRUE, content |-> result.content]
            /\ log' = log \o <<"write_report", "print">>
       ELSE /\ UNCHANGED reportFile
            /\ log' = Append(log, "print")
    /\ stdout' = Append(stdout, <<>>)
    /\ status' = 1
    /\ pc' = "exit"
    /\ UNCHANGED <<text, market, extracted, xpc, args, buildOk, result, codes,
                   outputFile, runs>>

\* lines 141-145
ResultFailed ==
    /\ pc = "result"
    /\ ~result.success
    /\ stdout' = Append(stdout, <<>>)
    /\ log' = Append(log, "print")
    /\ status' = 1
    /\ pc' = "exit"
    /\ UNCHANGED <<text, market, extracted, xpc, args, buildOk, result, codes,
                   outputFile, reportFile, runs>>

\* lines 141, 147-154
SaveReport ==
    /\ pc = "result"
    /\ result.success
    /\ IF args.report # "None"
       THEN /\ reportFile' = WriteText(result.content)
            /\ log' = Append(log, "write_report")
       ELSE UNCHANGED <<reportFile, log>>
    /\ pc' = "extract"
    /\ UNCHANGED <<text, market, extracted, xpc, args, buildOk, result, codes,
                   stdout, status, outputFile, runs>>

\* lines 157-160
ExtractCodes ==
    /\ pc = "extract"
    /\ codes' = PySliceTo(_extract_stock_codes(result.content, args.market),
                          args.max_stocks)
    /\ log' = Append(log, "extract")
    /\ pc' = "emit"
    /\ UNCHANGED <<text, market, extracted, xpc, args, buildOk, result, stdout,
                   status, outputFile, reportFile, runs>>

\* an empty selection treated as a failure
NoCodesAsError ==
    /\ pc = "emit"
    /\ codes = <<>>
    /\ stdout' = Append(stdout, <<>>)
    /\ log' = Append(log, "print")
    /\ status' = 1
    /\ pc' = "exit"
    /\ UNCHANGED <<text, market, extracted, xpc, args, buildOk, result, codes,
                   outputFile, reportFile, runs>>

\* lines 162-166
NoCodes ==
    /\ pc = "emit"
    /\ codes = <<>>
    /\ stdout' = Append(stdout, <<>>)
    /\ log' = Append(log, "print")
    /\ status' = 0
    /\ pc' = "exit"
    /\ UNCHANGED <<text, market, extracted, xpc, args, buildOk, result, codes,
                   outputFile, reportFile, runs>>

\* lines 162, 168-179
EmitCodes ==
    /\ pc = "emit"
    /\ codes # <<>>
    /\ LET csv_codes == Join(codes)
       IN  /\ IF args.output # "None"
              THEN /\ outputFile' = WriteText(csv_codes)
                   /\ log' = log \o <<"write_output", "print">>
              ELSE /\ UNCHANGED outputFile
                   /\ log' = Append(log, "print")
           /\ stdout' = Append(stdout, csv_codes)
    /\ status' = 0
    /\ pc' = "exit"
    /\ UNCHANGED <<text, market, extracted, xpc, args, buildOk, result, codes,
                   reportFile, runs>>

\* the script is started again (lines 182-183); the two files are what the
\* previous process left
Restart ==
    /\ pc = "exit"
    /\ runs < MaxRuns
    /\ runs' = runs + 1
    /\ pc' = "build"
    /\ args' \in ArgSpace
    /\ buildOk' = "unknown"
    /\ result' = [success |-> FALSE, content |-> <<>>]
    /\ codes' = <<>>
    /\ stdout' = <<>>
    /\ status' = -1
    /\ log' = <<>>
    /\ UNCHANGED <<text, market, extracted, xpc, outputFile, reportFile>>

Next ==
    \/ BuildOk
    \/ BuildRaises
    \/ RunExecutor
    \/ ResultFailed
    \/ SaveReport
    \/ ExtractCodes
    \/ NoCodes
    \/ EmitCodes
    \/ Restart

Spec == Init /\ [][Next]_vars

(***************************************************************************)
(* Properties of main(), checked under Spec.                               *)
(***************************************************************************)
Count(seq, x) == Cardinality({i \in 1..Len(seq) : seq[i] = x})

HasRun == "run" \in Range(log)

\* the list _extract_stock_codes returned in this process
ExtractedList == _extract_stock_codes(result.content, args.market)

\* line.split(",") for a non-empty line
RECURSIVE SplitComma(_, _)
SplitComma(line, field) ==
    IF line = <<>> THEN <<field>>
    ELSE IF Head(line) = ","
         THEN <<field>> \o SplitComma(Tail(line), <<>>)
         ELSE SplitComma(Tail(line), Append(field, Head(line)))

Whitespace == {" ", "\t", "\n", "\r"}

\* C1: a finished process has exit status 1 exactly when building the
\* executor raised or the executor's result reported failure; in every other
\* case, an empty selection included, the exit status is 0.
C1_ExitStatus ==
    pc = "exit" =>
        /\ status \in {0, 1}
        /\ status = 1 <=> (buildOk = "raised" \/ (HasRun /\ ~result.success))

\* C1 witness: a successful result whose extracted codes were all truncated
\* away ends with status 0
C1_Witness ==
    /\ pc = "exit"
    /\ status = 0
    /\ result.success
    /\ ExtractedList # <<>>
    /\ codes = <<>>

\* C2: every finished process has written exactly one line to stdout.
C2_OneLine == pc = "exit" => Len(stdout) = 1

\* C3: for a positive max_stocks the codes printed are exactly the first
\* min(len(L), max_stocks) elements of the extracted list L, in order, joined
\* with "," with no trailing separator and no whitespace.
C3_Truncate ==
    (pc = "exit" /\ status = 0 /\ args.max_stocks > 0) =>
        LET L == ExtractedList
            n == IF Len(L) <= args.max_stocks THEN Len(L) ELSE args.max_stocks
            line == stdout[Len(stdout)]
        IN  /\ Len(stdout) = 1
            /\ \A k \in 1..Len(line) : line[k] \notin Whitespace
            /\ IF n = 0 THEN line = <<>>
               ELSE LET fields == SplitComma(line, <<>>)
                    IN  /\ Len(fields) = n
                        /\ \A i \in 1..n : fields[i] = L[i] /\ fields[i] # <<>>

\* C3 witness: three codes extracted, max_stocks 2, the first two printed
C3_Witness ==
    /\ pc = "exit"
    /\ args.max_stocks = 2
    /\ Len(ExtractedList) = 3
    /\ stdout = << <<"1","1","1","1","1","1",",","2","2","2","2","2","2">> >>

\* C8: in one process the executor is built at most once and run at most
\* once; it is run only after a successful build; after a failed build the
\* process ends with a non-zero status having made no other call.
C8_BuildRunOnce ==
    /\ Count(log, "build") <= 1
    /\ Count(log, "run") <= 1
    /\ HasRun => buildOk = "ok" /\ Len(log) >= 2 /\ log[1] = "build" /\ log[2] = "run"
    /\ buildOk = "raised" => pc = "exit" /\ status # 0 /\ log = <<"build">>

\* C8 witness: a process whose build failed, started after an earlier
\* process had written both files
C8_Witness ==
    /\ pc = "exit"
    /\ buildOk = "raised"
    /\ reportFile.exists
    /\ outputFile.exists

\* C9: when a process ends with status 0 and --output was given, the output
\* file holds the line that process printed.
C9_FileMatchesStdout ==
    (pc = "exit" /\ status = 0 /\ args.output # "None") =>
        /\ Len(stdout) = 1
        /\ outputFile.exists
        /\ outputFile.content = stdout[1]

\* C10, state part: the report has been written exactly when the result was
\* a success and --report was given; the file then holds result.content; the
\* write precedes the extraction and every print; nothing is written when the
\* build or the result failed.
C10_ReportState ==
    LET written == "write_report" \in Range(log)
    IN  /\ written => /\ HasRun /\ result.success /\ args.report # "None"
                      /\ reportFile = [exists |-> TRUE, content |-> result.content]
        /\ (pc \in {"extract", "emit", "exit"} /\ HasRun /\ result.success
              /\ args.report # "None") => written
        /\ \A i, j \in 1..Len(log) :
              (log[i] = "write_report" /\ log[j] \in {"extract", "print", "write_output"})
                => i < j
        /\ written => Count(log, "write_report") = 1
        /\ (buildOk = "raised" \/ (HasRun /\ ~result.success)) =>
              /\ "write_report" \notin Range(log)
              /\ "write_output" \notin Range(log)
              /\ "extract" \notin Range(log)

\* C10, step part: within a process the report file changes only in the
\* step that saves the report of a successful result, before anything was
\* extracted or printed, and the output file only in a step of a process
\* whose result was a success.
C10_ReportStep ==
    /\ reportFile' # reportFile =>
          /\ result.success /\ HasRun /\ args.report # "None"
          /\ reportFile' = [exists |-> TRUE, content |-> result.content]
          /\ stdout = <<>> /\ "extract" \notin Range(log)
          /\ log' = Append(log, "write_report")
    /\ outputFile' # outputFile => result.success /\ HasRun /\ buildOk = "ok"

\* C10: the report file is written if and only if the result is a success
\* and a report path was given, with result.content, before extraction and
\* before any output, whatever the number of codes; a failed build or a
\* failed result leaves both files alone.
C10_Report == [](C10_ReportState) /\ [][C10_ReportStep]_vars

\* C10 witness: the report was saved although no code was extracted
C10_Witness ==
    /\ pc = "exit"
    /\ "write_report" \in Range(log)
    /\ reportFile.content = result.content
    /\ ExtractedList = <<>>
    /\ stdout = << <<>> >>

(***************************************************************************)
(* Properties of _extract_stock_codes, checked under SpecExtract.          *)
(***************************************************************************)
Returned == xpc = "returned"

Min2(a, b) == IF a <= b THEN a ELSE b
Max2(a, b) == IF a >= b THEN a ELSE b

IsSixDigitCode(c) == Len(c) = 6 /\ \A k \in 1..6 : c[k] \in DigitChars
IsHKToken(c) ==
    Len(c) = 7 /\ c[1] = "H" /\ c[2] = "K" /\ \A k \in 3..7 : c[k] \in DigitChars
IsAllLetters(c) ==
    c # <<>> /\ \A k \in 1..Len(c) : c[k] \in UpperChars \cup LowerChars
IsAllUpper(c) == c # <<>> /\ \A k \in 1..Len(c) : c[k] \in UpperChars

\* the tokens the three patterns hand to the ordered set under scope mkt, in
\* the order the loops meet them
Offered(s, mkt) ==
    LET Tok(ms) == [i \in 1..Len(ms) |-> ms[i].token]
        dom == SelectSeq(Tok(FindIter("astock", s, 0)),
                         LAMBDA c : c[1] \in {"0", "1", "2", "3", "6"})
        hkm == FindIter("hk", s, 0)
        hk  == IF mkt \in {"hk", "mixed"}
               THEN [i \in 1..Len(hkm) |-> Upper(hkm[i].token)]
               ELSE <<>>
        us  == IF mkt \in {"us", "mixed"}
               THEN Tok(SelectSeq(FindIter("us", s, 0),
                                  LAMBDA m : HasPriceContext(s, m)))
               ELSE <<>>
    IN  dom \o hk \o us

FirstIndex(seq, x) ==
    CHOOSE i \in 1..Len(seq) : seq[i] = x /\ \A j \in 1..(i - 1) : seq[j] # x

\* C4: the returned list has no duplicate; it holds exactly the offered
\* tokens, ordered by first offer (domestic, then HK, then tickers, each in
\* match order); HK spellings that differ only by case give one entry, and a
\* domestic code with or without exchange marker gives one entry.
C4_OrderedUnique ==
    Returned =>
        LET off == Offered(text, market)
        IN  /\ \A i, j \in 1..Len(extracted) : i # j => extracted[i] # extracted[j]
            /\ Range(extracted) = Range(off)
            /\ \A i, j \in 1..Len(extracted) :
                  i < j => FirstIndex(off, extracted[i]) < FirstIndex(off, extracted[j])
            /\ \A i, j \in 1..Len(extracted) :
                  (i < j /\ IsAllUpper(extracted[i])) => ~IsSixDigitCode(extracted[j])
            /\ \A i, j \in 1..Len(extracted) :
                  (i < j /\ IsHKToken(extracted[i])) => ~IsSixDigitCode(extracted[j])
            /\ \A i, j \in 1..Len(extracted) :
                  (i < j /\ IsAllUpper(extracted[i])) => ~IsHKToken(extracted[j])
            /\ \A i, j \in 1..Len(extracted) :
                  Upper(extracted[i]) = Upper(extracted[j]) => i = j

\* C4 witness: a token is offered, then another one, then the first again
\* (in another spelling or with an exchange marker), and the list holds the
\* two in first-offer order
C4_Witness ==
    /\ Returned
    /\ Len(extracted) = 2
    /\ LET off == Offered(text, market)
       IN  /\ Len(off) = 3
           /\ off[1] = off[3]
           /\ off[1] # off[2]
           /\ extracted = <<off[1], off[2]>>

\* C5: under every scope each 6-digit numeric code returned starts with one
\* of 0, 1, 2, 3, 6; the token 400001 is never returned.
C5_LeadingDigit ==
    Returned =>
        /\ \A c \in Range(extracted) :
              IsSixDigitCode(c) => c[1] \in {"0", "1", "2", "3", "6"}
        /\ <<"4","0","0","0","0","1">> \notin Range(extracted)

\* C5 witness: the text holds 400001 as a word of its own next to an
\* accepted code, and only the accepted code is returned
C5_Witness ==
    /\ Returned
    /\ text = <<"4","0","0","0","0","1">> \o <<",","0","0","0","0","0","1",",">>
    /\ extracted = << <<"0","0","0","0","0","1">> >>

\* C6: the 6-digit codes returned are the same under all four scopes; an HK
\* token is returned only under hk or mixed, an all-letter ticker only under
\* us or mixed; under cn every element is a 6-digit numeric code; the list
\* for mixed holds every element of the lists for cn, hk and us.
C6_ScopeGating ==
    Returned =>
        /\ {c \in Range(extracted) : IsSixDigitCode(c)}
              = Range(_extract_stock_codes(text, "cn"))
        /\ \A c \in Range(extracted) :
              /\ IsHKToken(c) => market \in {"hk", "mixed"}
              /\ IsAllLetters(c) => market \in {"us", "mixed"}
              /\ IsSixDigitCode(c) \/ IsHKToken(c) \/ IsAllLetters(c)
        /\ market = "cn" => \A c \in Range(extracted) : IsSixDigitCode(c)
        /\ market = "mixed" =>
              \A mkt \in Markets :
                  Range(_extract_stock_codes(text, mkt)) \subseteq Range(extracted)

\* C6 witness: under cn a text with an HK token, a ticker next to digits and
\* a domestic code gives the domestic code alone
C6_Witness ==
    /\ Returned
    /\ market = "cn"
    /\ FindIter("hk", text, 0) # <<>>
    /\ \E k \in 1..Len(FindIter("us", text, 0)) :
          HasPriceContext(text, FindIter("us", text, 0)[k])
    /\ extracted = << <<"0","0","0","0","0","1">> >>

\* the word-bounded runs of 1 to 5 uppercase letters of s, as <<start, end>>
TickerWords(s) ==
    LET starts == {a \in 0..(Len(s) - 1) :
                      s[a + 1] \in UpperChars /\ ~IsWordAt(s, a - 1)}
    IN  {w \in starts \X (1..Len(s)) :
            /\ w[2] - w[1] >= TickerMin
            /\ w[2] - w[1] <= TickerMax
            /\ \A k \in (w[1] + 1)..w[2] : s[k] \in UpperChars
            /\ ~IsWordAt(s, w[2])}

\* offsets start-20 .. end+20-1, clamped to the text, hold a currency sign,
\* a percent sign or a digit
NearPrice(s, w) ==
    \E o \in Max2(0, w[1] - ContextRadius)..(Min2(Len(s), w[2] + ContextRadius) - 1) :
        s[o + 1] \in {"$", "YEN", "FWYEN", "%"} \cup DigitChars

\* C7: under us or mixed a word-bounded run of 1-5 uppercase letters is
\* returned if and only if one of its occurrences has a currency sign, a
\* percent sign or a digit within 20 characters before its start or after its
\* end; no element with a lowercase letter is returned.
C7_TickerContext ==
    (Returned /\ market \in {"us", "mixed"}) =>
        /\ \A w \in TickerWords(text) :
              NearPrice(text, w) => Slice(text, w[1], w[2]) \in Range(extracted)
        /\ \A c \in Range(extracted) :
              IsAllLetters(c) =>
                 \E w \in TickerWords(text) :
                    c = Slice(text, w[1], w[2]) /\ NearPrice(text, w)
        /\ \A c \in Range(extracted) : \A k \in 1..Len(c) : c[k] \notin LowerChars

\* C7 witness: a ticker whose only context character, a percent sign, is
\* the last character of its window (offset end + 19) is returned
C7_Witness ==
    /\ Returned
    /\ market = "us"
    /\ text = <<"A","A","P","L">> \o Pad(ContextRadius - 1) \o <<"%">>
    /\ extracted = << <<"A","A","P","L">> >>

====
